---- MODULE Spec2Model ----
(***************************************************************************)
(* Model of slab_builder.py: the two ceria bulk builders, the (111) cell   *)
(* orthogonalizer and the slab assembler.                                  *)
(*                                                                         *)
(* Lengths are integers in units of 0.01 angstrom (0.05 A = 5, 2 A = 200). *)
(* Fractional (scaled) coordinates are integers in quarters (1/2 = 2).     *)
(* An Atoms object is a record                                             *)
(*   [symbols, positions, cell, pbc]                                       *)
(* with Cartesian positions, a 3x3 cell (a tuple of three rows) and one    *)
(* periodic flag per axis.  Python index i is TLA+ index i + 1.            *)
(* Floating-point rounding is not modelled.                                *)
(***************************************************************************)
EXTENDS Integers, Sequences, FiniteSets, TLC

VARIABLES
    fn,            \* the function of the module being called
    pc,            \* position inside that function
    cellparam, vacuum, layers, repetitions, indices, waterspecies,  \* arguments
    ceria,         \* local `ceria` of the builders and of slab
    slab,          \* local/argument `slab` of slab and orthogonalize_111
    water,         \* local `water` of slab
    log,           \* history: the calls made so far, in order
    tiled,         \* history: `slab` as returned by slab.repeat (line 116)
    orig,          \* history: the argument of the first orthogonalize_111 call
    before,        \* history: the argument of the latest orthogonalize_111 call
    ncalls         \* number of orthogonalize_111 calls made on `slab`

vars == <<fn, pc, cellparam, vacuum, layers, repetitions, indices, waterspecies,
          ceria, slab, water, log, tiled, orig, before, ncalls>>

(***************************************************************************)
(* Bounds of the model.                                                    *)
(***************************************************************************)
MaxLayers == 2
MaxRep == 2
MaxAtoms == 2
MaxCalls == 2

(***************************************************************************)
(* Atoms objects and the linear algebra behind scaled positions.           *)
(***************************************************************************)
ZeroCell == <<<<0, 0, 0>>, <<0, 0, 0>>, <<0, 0, 0>>>>

NoAtoms == [symbols |-> <<>>, positions |-> <<>>, cell |-> ZeroCell,
            pbc |-> <<FALSE, FALSE, FALSE>>]

VecAdd(p, q) == <<p[1] + q[1], p[2] + q[2], p[3] + q[3]>>

VecSub(p, q) == <<p[1] - q[1], p[2] - q[2], p[3] - q[3]>>

VecScale(k, p) == <<k * p[1], k * p[2], k * p[3]>>

Det3(m) ==
    m[1][1] * (m[2][2] * m[3][3] - m[2][3] * m[3][2])
  - m[1][2] * (m[2][1] * m[3][3] - m[2][3] * m[3][1])
  + m[1][3] * (m[2][1] * m[3][2] - m[2][2] * m[3][1])

\* Cartesian position of the scaled position s (in quarters): s . cell
ScaledToCartesian(s, cell) ==
    [j \in 1..3 |->
        (s[1] * cell[1][j] + s[2] * cell[2][j] + s[3] * cell[3][j]) \div 4]

\* Scaled position (in quarters) of the Cartesian position p: the solution s of
\* s . cell = p by Cramer's rule, wrapped into [0, 1) on the periodic axes.
CartesianToScaled(p, cell, pbc) ==
    [i \in 1..3 |->
        LET s == (4 * Det3([cell EXCEPT ![i] = p])) \div Det3(cell)
        IN  IF pbc[i] THEN s % 4 ELSE s]

get_scaled_positions(atoms) ==
    [k \in 1..Len(atoms.positions) |->
        CartesianToScaled(atoms.positions[k], atoms.cell, atoms.pbc)]

set_scaled_positions(atoms, scaled) ==
    [atoms EXCEPT !.positions =
        [k \in 1..Len(scaled) |-> ScaledToCartesian(scaled[k], atoms.cell)]]

\* ase.Atoms(symbols, scaled_positions, cell=[a, b, c], pbc=True)
Atoms(symbols, scaled_positions, celldiag) ==
    LET cell == <<<<celldiag[1], 0, 0>>, <<0, celldiag[2], 0>>,
                  <<0, 0, celldiag[3]>>>>
    IN  [symbols |-> symbols,
         positions |-> [k \in 1..Len(scaled_positions) |->
                           ScaledToCartesian(scaled_positions[k], cell)],
         cell |-> cell,
         pbc |-> <<TRUE, TRUE, TRUE>>]

(***************************************************************************)
(* ceria_primitive                                                         *)
(***************************************************************************)
\* The formula 'CeO2' passed as name: one symbol per atom of the formula unit.
CeO2 == <<"Ce", "O", "O">>

\* ase.build.bulk(name, crystalstructure='fluorite', a): one atom per symbol of
\* the formula on the fcc primitive lattice, the first at the origin, the second
\* at a/4 (1,1,1), the third at 3a/4 (1,1,1).
bulk(name, a) ==
    LET b == a \div 2
        q == a \div 4
    IN  [symbols |-> name,
         positions |-> <<<<0, 0, 0>>, <<q, q, q>>, <<3 * q, 3 * q, 3 * q>>>>,
         cell |-> <<<<0, b, b>>, <<b, 0, b>>, <<b, b, 0>>>>,
         pbc |-> <<TRUE, TRUE, TRUE>>]

ceria_primitive_wrong_index(cp) ==
    LET c0 == bulk(CeO2, cp)
        scaled_pos == get_scaled_positions(c0)
    IN  set_scaled_positions(c0, [scaled_pos EXCEPT ![2] = <<2, 2, 2>>])

ceria_primitive(cp) ==
    LET c0 == bulk(CeO2, cp)
        scaled_pos == get_scaled_positions(c0)
    IN  set_scaled_positions(c0, [scaled_pos EXCEPT ![1] = <<2, 2, 2>>])

(***************************************************************************)
(* ceria_crystallographic                                                  *)
(***************************************************************************)
ceria_crystallographic_swapped(cp) ==
    Atoms(<<"Ce", "Ce", "Ce", "Ce", "O", "O", "O", "O", "O", "O", "O", "O">>,
          <<<<0, 0, 0>>, <<2, 2, 0>>, <<2, 0, 2>>, <<0, 2, 2>>,
            <<1, 1, 1>>, <<1, 1, 3>>, <<1, 3, 1>>, <<3, 1, 1>>,
            <<1, 3, 3>>, <<3, 1, 3>>, <<3, 3, 1>>, <<3, 3, 1>>>>,
          <<cp, cp, cp>>)

ceria_crystallographic(cp) ==
    Atoms(<<"Ce", "Ce", "Ce", "Ce", "O", "O", "O", "O", "O", "O", "O", "O">>,
          <<<<0, 0, 0>>, <<2, 2, 0>>, <<2, 0, 2>>, <<0, 2, 2>>,
            <<1, 1, 1>>, <<1, 1, 3>>, <<1, 3, 1>>, <<3, 1, 1>>,
            <<1, 3, 3>>, <<3, 1, 3>>, <<3, 3, 1>>, <<3, 3, 3>>>>,
          <<cp, cp, cp>>)

(***************************************************************************)
(* orthogonalize_111                                                       *)
(***************************************************************************)
Tolerance == 5

WrapCoordinate_plus(x, L) == IF x >= L - Tolerance THEN x + L ELSE x

WrapCoordinate_strict(x, L) == IF x > L - Tolerance THEN x - L ELSE x

\* lines 76-77: one coordinate of one atom against the diagonal entry L
WrapCoordinate(x, L) == IF x >= L - Tolerance THEN x - L ELSE x

\* for i_dir in range(3), from i_dir on
RECURSIVE WrapDirs(_, _, _)
WrapDirs(p, cell, i_dir) ==
    IF i_dir > 3 THEN p
    ELSE WrapDirs([p EXCEPT ![i_dir] = WrapCoordinate(p[i_dir], cell[i_dir][i_dir])],
                  cell, i_dir + 1)

\* for i_pos in range(len(positions)), from i_pos on
RECURSIVE WrapAtoms(_, _, _)
WrapAtoms(positions, cell, i_pos) ==
    IF i_pos > Len(positions) THEN positions
    ELSE WrapAtoms([positions EXCEPT ![i_pos] = WrapDirs(positions[i_pos], cell, 1)],
                   cell, i_pos + 1)

orthogonalize_111_no_set_positions(s) ==
    [s EXCEPT !.cell = [s.cell EXCEPT ![2][1] = 0]]

orthogonalize_111_wrong_entry(s) ==
    LET cell == [s.cell EXCEPT ![1][2] = 0]
    IN  [s EXCEPT !.cell = cell, !.positions = WrapAtoms(s.positions, cell, 1)]

orthogonalize_111(s) ==
    LET cell == [s.cell EXCEPT ![2][1] = 0]
    IN  [s EXCEPT !.cell = cell, !.positions = WrapAtoms(s.positions, cell, 1)]

(***************************************************************************)
(* Arguments the functions are called with.                                *)
(***************************************************************************)
CellParams == {400, 544}

\* diagonal lengths of the cells handed to orthogonalize_111
CellDiag == <<380, 330, 1500>>

Lx == CellDiag[1]

Ly == CellDiag[2]

Lz == CellDiag[3]

\* cells handed to orthogonalize_111: the tilted cell of the (111) cut, a cell
\* with a second off-diagonal entry, and an already orthogonal cell
OrthoCells ==
    {<<<<Lx, c01, 0>>, <<c10, Ly, 0>>, <<0, 0, Lz>>>> :
        <<c10, c01>> \in {<<190, 0>>, <<190, 7>>, <<0, 0>>}}

CoordsX == {-10, 0, Lx - 6, Lx - 5, Lx - 1, 2 * Lx - 6, 2 * Lx - 5}
CoordsY == {Ly - 50, Ly - 5, 2 * Ly - 5}
CoordsZ == {Lz - 50, Lz - 1}

OrthoPositions == {<<x, y, z>> : x \in CoordsX, y \in CoordsY, z \in CoordsZ}

\* a structure of n atoms (Ce, O, O, Ce, ...) at the positions ps in the cell c
OrthoSlab(n, ps, c) ==
    [symbols |-> [k \in 1..n |-> CeO2[((k - 1) % 3) + 1]],
     positions |-> ps,
     cell |-> c,
     pbc |-> <<TRUE, TRUE, FALSE>>]

(***************************************************************************)
(* The collaborators slab calls (external structure library), modelled by  *)
(* their documented behaviour.                                             *)
(***************************************************************************)
\* the indices argument: a Python tuple or list of three integers; a list never
\* compares equal to a tuple
Tuple(h, k, l) == [kind |-> "tuple", hkl |-> <<h, k, l>>]

List(h, k, l) == [kind |-> "list", hkl |-> <<h, k, l>>]

MaxOf(S) == CHOOSE m \in S : \A x \in S : x <= m

MinOf(S) == CHOOSE m \in S : \A x \in S : m <= x

ZCoords(positions) == {positions[k][3] : k \in 1..Len(positions)}

\* surface() rejects indices that are all zero
InvalidIndices(ind) == ind.hkl = <<0, 0, 0>>

\* ase.build.surface(lattice, indices, layers, vacuum): `layers` copies of the
\* bulk cell stacked along its third lattice vector, in-plane lattice vectors
\* with no z component, a third vector along z, vacuum on both sides of the
\* atoms and no periodicity along z.  The reorientation of the facet normal
\* onto z is abstracted: no property below reads the in-plane geometry.
surface(lattice, ind, nlayers, vac) ==
    LET n == Len(lattice.symbols)
        stacked == [k \in 1..(n * nlayers) |->
                       VecAdd(lattice.positions[((k - 1) % n) + 1],
                              VecScale((k - 1) \div n, lattice.cell[3]))]
        zmin == MinOf(ZCoords(stacked))
        zmax == MaxOf(ZCoords(stacked))
    IN  [symbols |-> [k \in 1..(n * nlayers) |-> lattice.symbols[((k - 1) % n) + 1]],
         positions |-> [k \in 1..(n * nlayers) |->
                           VecAdd(stacked[k], <<0, 0, vac - zmin>>)],
         cell |-> <<<<lattice.cell[1][1], lattice.cell[1][2], 0>>,
                    <<lattice.cell[2][1], lattice.cell[2][2], 0>>,
                    <<0, 0, (zmax - zmin) + 2 * vac>>>>,
         pbc |-> <<TRUE, TRUE, FALSE>>]

\* Atoms.repeat(rep): the atoms tiled block by block, the third index running
\* fastest, each block shifted by (m0, m1, m2) . cell; each cell row scaled.
repeat(atoms, rep) ==
    LET n == Len(atoms.symbols)
        M == rep[1] * rep[2] * rep[3]
        Shift(blk) ==
            VecAdd(VecScale(blk \div (rep[2] * rep[3]), atoms.cell[1]),
                   VecAdd(VecScale((blk \div rep[3]) % rep[2], atoms.cell[2]),
                          VecScale(blk % rep[3], atoms.cell[3])))
    IN  [symbols |-> [k \in 1..(n * M) |-> atoms.symbols[((k - 1) % n) + 1]],
         positions |-> [k \in 1..(n * M) |->
                           VecAdd(atoms.positions[((k - 1) % n) + 1],
                                  Shift((k - 1) \div n))],
         cell |-> [c \in 1..3 |-> VecScale(rep[c], atoms.cell[c])],
         pbc |-> atoms.pbc]

\* ase.build.molecule('H2O'): O, H, H in the molecule's own frame
molecule(name) ==
    [symbols |-> <<"O", "H", "H">>,
     positions |-> <<<<0, 0, 12>>, <<0, 76, -48>>, <<0, -76, -48>>>>,
     cell |-> ZeroCell,
     pbc |-> <<FALSE, FALSE, FALSE>>]

\* cosine and sine of the three angles used, in thousandths
CosMilli(angle) == CASE angle = 80 -> 174 [] angle = -60 -> 500 [] angle = 50 -> 643

SinMilli(angle) == CASE angle = 80 -> 985 [] angle = -60 -> -866 [] angle = 50 -> 766

RoundMilli(n) == (n + 500) \div 1000

\* Atoms.rotate(angle, axis): right-handed rotation of every atom about the
\* axis through the origin, in fixed-point arithmetic
RotatePoint(p, angle, axis) ==
    LET c == CosMilli(angle)
        s == SinMilli(angle)
    IN  CASE axis = "z" -> <<RoundMilli(c * p[1] - s * p[2]),
                             RoundMilli(s * p[1] + c * p[2]), p[3]>>
          [] axis = "x" -> <<p[1], RoundMilli(c * p[2] - s * p[3]),
                             RoundMilli(s * p[2] + c * p[3])>>
          [] axis = "y" -> <<RoundMilli(c * p[1] + s * p[3]), p[2],
                             RoundMilli(c * p[3] - s * p[1])>>

rotate(atoms, angle, axis) ==
    [atoms EXCEPT !.positions =
        [k \in 1..Len(atoms.positions) |-> RotatePoint(atoms.positions[k], angle, axis)]]

\* the adsorbate as add_adsorbate leaves it: translated so that its first atom
\* sits at `position`, `height` above the highest atom of the slab
PlacedAdsorbate(s, adsorbate, height, position) ==
    LET z == MaxOf(ZCoords(s.positions)) + height
        shift == VecSub(<<position[1], position[2], z>>, adsorbate.positions[1])
    IN  [adsorbate EXCEPT !.positions =
            [k \in 1..Len(adsorbate.positions) |-> VecAdd(adsorbate.positions[k], shift)]]

\* ase.build.add_adsorbate(slab, adsorbate, height, position): the slab extended
\* in place by the placed adsorbate
add_adsorbate(s, adsorbate, height, position) ==
    LET ads == PlacedAdsorbate(s, adsorbate, height, position)
    IN  [s EXCEPT !.symbols = s.symbols \o ads.symbols,
                  !.positions = s.positions \o ads.positions]

\* order of the chemical symbols as Python compares the strings
SymbolRank(sym) == CASE sym = "Ce" -> 1 [] sym = "H" -> 2 [] sym = "O" -> 3

\* ase.build.sort(atoms): the atoms reordered by chemical symbol, atoms of one
\* symbol keeping their order
sort(atoms) ==
    LET n == Len(atoms.symbols)
        idx == [k \in 1..n |-> k]
        Of(r) == SelectSeq(idx, LAMBDA i : SymbolRank(atoms.symbols[i]) = r)
        order == Of(1) \o Of(2) \o Of(3)
    IN  [atoms EXCEPT !.symbols = [k \in 1..n |-> atoms.symbols[order[k]]],
                      !.positions = [k \in 1..n |-> atoms.positions[order[k]]]]

(***************************************************************************)
(* slab                                                                    *)
(***************************************************************************)
Height == 200
OffsetX == 60
OffsetY == 30

SelectsPrimitive_inverted(ind) == ind # Tuple(1, 1, 1)

\* line 104: indices == (1, 1, 1)
SelectsPrimitive(ind) == ind = Tuple(1, 1, 1)

SelectsWater_not_n(ws) == ws # "n"

\* line 117: waterspecies == 'a'
SelectsWater(ws) == ws = "a"

AdsorbatePosition_last_atom(s) ==
    LET n == Len(s.positions)
    IN  <<s.positions[n][1] + OffsetX, s.positions[n][2] - OffsetY>>

\* line 126: (slab[-3].x + 0.6, slab[-3].y - 0.3)
AdsorbatePosition(s) ==
    LET n == Len(s.positions)
    IN  <<s.positions[n - 2][1] + OffsetX, s.positions[n - 2][2] - OffsetY>>

\* lines 104-107
slab_select ==
    /\ fn = "slab" /\ pc = "select"
    /\ IF SelectsPrimitive(indices)
       THEN /\ ceria' = ceria_primitive(cellparam)
            /\ log' = Append(log, "ceria_primitive")
       ELSE /\ ceria' = ceria_crystallographic(cellparam)
            /\ log' = Append(log, "ceria_crystallographic")
    /\ pc' = "surface"
    /\ UNCHANGED <<fn, cellparam, vacuum, layers, repetitions, indices,
                   waterspecies, slab, water, tiled, orig, before, ncalls>>

\* lines 109-113; an error of the cutter ends the call
slab_surface ==
    /\ fn = "slab" /\ pc = "surface"
    /\ log' = Append(log, "surface")
    /\ IF InvalidIndices(indices)
       THEN /\ pc' = "raised"
            /\ slab' = slab
       ELSE /\ pc' = "repeat"
            /\ slab' = surface(ceria, indices, layers, vacuum)
    /\ UNCHANGED <<fn, cellparam, vacuum, layers, repetitions, indices,
                   waterspecies, ceria, water, tiled, orig, before, ncalls>>

\* line 116
slab_repeat ==
    /\ fn = "slab" /\ pc = "repeat"
    /\ slab' = repeat(slab, repetitions)
    /\ tiled' = slab'
    /\ log' = Append(log, "repeat")
    /\ pc' = "water"
    /\ UNCHANGED <<fn, cellparam, vacuum, layers, repetitions, indices,
                   waterspecies, ceria, water, orig, before, ncalls>>

\* lines 117-119
slab_molecule ==
    /\ fn = "slab" /\ pc = "water"
    /\ SelectsWater(waterspecies)
    /\ water' = molecule("H2O")
    /\ log' = Append(log, "molecule")
    /\ pc' = "rotate_z"
    /\ UNCHANGED <<fn, cellparam, vacuum, layers, repetitions, indices,
                   waterspecies, ceria, slab, tiled, orig, before, ncalls>>

slab_no_water_skips_sort ==
    /\ fn = "slab" /\ pc = "water"
    /\ ~SelectsWater(waterspecies)
    /\ pc' = "return"
    /\ UNCHANGED <<fn, cellparam, vacuum, layers, repetitions, indices,
                   waterspecies, ceria, slab, water, log, tiled, orig, before,
                   ncalls>>

\* line 117, condition false: nothing is done for any other waterspecies
slab_no_water ==
    /\ fn = "slab" /\ pc = "water"
    /\ ~SelectsWater(waterspecies)
    /\ pc' = "symbols"
    /\ UNCHANGED <<fn, cellparam, vacuum, layers, repetitions, indices,
                   waterspecies, ceria, slab, water, log, tiled, orig, before,
                   ncalls>>

\* line 120
slab_rotate_z ==
    /\ fn = "slab" /\ pc = "rotate_z"
    /\ water' = rotate(water, 80, "z")
    /\ log' = Append(log, "rotate(80,z)")
    /\ pc' = "rotate_x"
    /\ UNCHANGED <<fn, cellparam, vacuum, layers, repetitions, indices,
                   waterspecies, ceria, slab, tiled, orig, before, ncalls>>

\* line 121
slab_rotate_x ==
    /\ fn = "slab" /\ pc = "rotate_x"
    /\ water' = rotate(water, -60, "x")
    /\ log' = Append(log, "rotate(-60,x)")
    /\ pc' = "rotate_y"
    /\ UNCHANGED <<fn, cellparam, vacuum, layers, repetitions, indices,
                   waterspecies, ceria, slab, tiled, orig, before, ncalls>>

\* line 122
slab_rotate_y ==
    /\ fn = "slab" /\ pc = "rotate_y"
    /\ water' = rotate(water, 50, "y")
    /\ log' = Append(log, "rotate(50,y)")
    /\ pc' = "add_adsorbate"
    /\ UNCHANGED <<fn, cellparam, vacuum, layers, repetitions, indices,
                   waterspecies, ceria, slab, tiled, orig, before, ncalls>>

\* lines 123-127; slab[-3] raises on a slab of fewer than three atoms
slab_add_adsorbate ==
    /\ fn = "slab" /\ pc = "add_adsorbate"
    /\ IF Len(slab.positions) < 3
       THEN /\ pc' = "raised"
            /\ UNCHANGED <<slab, water, log>>
       ELSE /\ slab' = add_adsorbate(slab, water, Height, AdsorbatePosition(slab))
            /\ water' = PlacedAdsorbate(slab, water, Height, AdsorbatePosition(slab))
            /\ log' = Append(log, "add_adsorbate")
            /\ pc' = "symbols"
    /\ UNCHANGED <<fn, cellparam, vacuum, layers, repetitions, indices,
                   waterspecies, ceria, tiled, orig, before, ncalls>>

\* line 130: the symbols are read and dropped
slab_get_chemical_symbols ==
    /\ fn = "slab" /\ pc = "symbols"
    /\ log' = Append(log, "get_chemical_symbols")
    /\ pc' = "sort"
    /\ UNCHANGED <<fn, cellparam, vacuum, layers, repetitions, indices,
                   waterspecies, ceria, slab, water, tiled, orig, before, ncalls>>

\* line 131
slab_sort ==
    /\ fn = "slab" /\ pc = "sort"
    /\ slab' = sort(slab)
    /\ log' = Append(log, "sort")
    /\ pc' = "return"
    /\ UNCHANGED <<fn, cellparam, vacuum, layers, repetitions, indices,
                   waterspecies, ceria, water, tiled, orig, before, ncalls>>

\* line 133
slab_return ==
    /\ fn = "slab" /\ pc = "return"
    /\ pc' = "done"
    /\ UNCHANGED <<fn, cellparam, vacuum, layers, repetitions, indices,
                   waterspecies, ceria, slab, water, log, tiled, orig, before,
                   ncalls>>

(***************************************************************************)
(* Direct calls of the other three functions.                              *)
(***************************************************************************)
call_ceria_primitive ==
    /\ fn = "ceria_primitive" /\ pc = "call"
    /\ ceria' = ceria_primitive(cellparam)
    /\ log' = Append(log, "ceria_primitive")
    /\ pc' = "done"
    /\ UNCHANGED <<fn, cellparam, vacuum, layers, repetitions, indices,
                   waterspecies, slab, water, tiled, orig, before, ncalls>>

call_ceria_crystallographic ==
    /\ fn = "ceria_crystallographic" /\ pc = "call"
    /\ ceria' = ceria_crystallographic(cellparam)
    /\ log' = Append(log, "ceria_crystallographic")
    /\ pc' = "done"
    /\ UNCHANGED <<fn, cellparam, vacuum, layers, repetitions, indices,
                   waterspecies, slab, water, tiled, orig, before, ncalls>>

\* the structure is changed in place and returned, so it can be passed again
call_orthogonalize_111 ==
    /\ fn = "orthogonalize_111" /\ ncalls < MaxCalls
    /\ before' = slab
    /\ slab' = orthogonalize_111(slab)
    /\ ncalls' = ncalls + 1
    /\ log' = Append(log, "orthogonalize_111")
    /\ pc' = "done"
    /\ UNCHANGED <<fn, cellparam, vacuum, layers, repetitions, indices,
                   waterspecies, ceria, water, tiled, orig>>

(***************************************************************************)
(* Specification: one call of one of the four functions.                   *)
(***************************************************************************)
IndicesArgs == {Tuple(1, 1, 1), List(1, 1, 1), Tuple(1, 0, 0), Tuple(1, 1, 0),
                Tuple(0, 0, 0)}

WaterArgs == {"a", "n", "d"}

VacuumArgs == {1000}

Idle ==
    /\ vacuum = 1000 /\ layers = 1 /\ repetitions = <<1, 1, 1>>
    /\ indices = Tuple(1, 1, 1) /\ waterspecies = "a"
    /\ ceria = NoAtoms /\ water = NoAtoms /\ tiled = NoAtoms
    /\ log = <<>> /\ ncalls = 0

InitBuilder ==
    /\ fn \in {"ceria_primitive", "ceria_crystallographic"}
    /\ pc = "call"
    /\ cellparam \in CellParams
    /\ slab = NoAtoms /\ orig = NoAtoms /\ before = NoAtoms
    /\ Idle

InitOrthogonalize ==
    /\ fn = "orthogonalize_111"
    /\ pc = "call"
    /\ cellparam = 544
    /\ \E n \in 1..MaxAtoms : \E ps \in [1..n -> OrthoPositions] : \E c \in OrthoCells :
           slab = OrthoSlab(n, ps, c)
    /\ orig = slab /\ before = slab
    /\ Idle

InitSlab ==
    /\ fn = "slab"
    /\ pc = "select"
    /\ cellparam \in CellParams
    /\ vacuum \in VacuumArgs
    /\ layers \in 1..MaxLayers
    /\ repetitions \in (1..MaxRep) \X (1..MaxRep) \X (1..MaxRep)
    /\ indices \in IndicesArgs
    /\ waterspecies \in WaterArgs
    /\ ceria = NoAtoms /\ slab = NoAtoms /\ water = NoAtoms /\ tiled = NoAtoms
    /\ orig = NoAtoms /\ before = NoAtoms
    /\ log = <<>> /\ ncalls = 0

Init == InitBuilder \/ InitOrthogonalize \/ InitSlab

Next ==
    \/ slab_select
    \/ slab_surface
    \/ slab_repeat
    \/ slab_molecule
    \/ slab_no_water
    \/ slab_rotate_z
    \/ slab_rotate_x
    \/ slab_rotate_y
    \/ slab_add_adsorbate
    \/ slab_get_chemical_symbols
    \/ slab_sort
    \/ slab_return
    \/ call_ceria_primitive
    \/ call_ceria_crystallographic
    \/ call_orthogonalize_111

Spec == Init /\ [][Next]_vars

(***************************************************************************)
(* Properties.                                                             *)
(***************************************************************************)
OrthoCalled == fn = "orthogonalize_111" /\ ncalls >= 1

AtomIndices(atoms) == 1..Len(atoms.positions)

OffDiagonal == {<<i, j>> \in (1..3) \X (1..3) : i # j}

Count(seq, x) == Cardinality({k \in 1..Len(seq) : seq[k] = x})

\* C1: after a call of orthogonalize_111 every coordinate of every atom is the
\* input coordinate minus the diagonal cell entry of its axis when the input was
\* at or above that entry minus 0.05, and the input coordinate otherwise; an
\* atom at L - 0.01 ends at -0.01, an atom at L - 0.5 stays.
C1_WrapRule ==
    OrthoCalled =>
        /\ Len(slab.positions) = Len(before.positions)
        /\ \A k \in AtomIndices(before) : \A d \in 1..3 :
            LET x == before.positions[k][d]
                L == before.cell[d][d]
            IN  /\ x >= L - 5 => slab.positions[k][d] = x - L
                /\ x < L - 5 => slab.positions[k][d] = x
                /\ x = L - 1 => slab.positions[k][d] = -1
                /\ x = L - 50 => slab.positions[k][d] = L - 50

C1_Witness ==
    /\ OrthoCalled /\ ncalls = 1
    /\ \E k \in AtomIndices(before) :
        /\ before.positions[k][1] = Lx - 1 /\ slab.positions[k][1] = -1
        /\ before.positions[k][2] = Ly - 50 /\ slab.positions[k][2] = Ly - 50
        /\ before.positions[k][3] = Lz - 1 /\ slab.positions[k][3] = -1

\* C2 as stated: after one call the (1,0) cell entry is zero, and a second call
\* on the result of the first changes neither the cell nor any coordinate.
C2_SecondCallNoOp_AsStated ==
    /\ OrthoCalled => slab.cell[2][1] = 0
    /\ (fn = "orthogonalize_111" /\ ncalls >= 2) => slab = before

InsideTwoLengths(atoms) ==
    \A k \in AtomIndices(atoms) : \A d \in 1..3 :
        atoms.positions[k][d] < 2 * atoms.cell[d][d] - Tolerance

\* C2 amended: after one call the (1,0) cell entry is zero, and a second call on
\* the result of the first changes neither the cell nor any coordinate, provided
\* every coordinate of the first call's input was below twice the diagonal
\* length of its axis minus 0.05.
C2_SecondCallNoOp ==
    /\ OrthoCalled => slab.cell[2][1] = 0
    /\ (fn = "orthogonalize_111" /\ ncalls >= 2 /\ InsideTwoLengths(orig))
           => slab = before

C2_Witness ==
    /\ fn = "orthogonalize_111" /\ ncalls = 2
    /\ InsideTwoLengths(orig)
    /\ orig.cell[2][1] # 0
    /\ \E k \in AtomIndices(orig) : orig.positions[k][1] # before.positions[k][1]
    /\ slab = before

InsideTwoBoxes(atoms) ==
    \A k \in AtomIndices(atoms) : \A d \in 1..3 :
        0 <= atoms.positions[k][d] /\ atoms.positions[k][d] < 2 * atoms.cell[d][d]

\* C3 as stated: for an input with 0 <= x < 2 L on every axis, every output
\* coordinate satisfies 0 <= x < L.
C3_BackInsideBox_AsStated ==
    (OrthoCalled /\ InsideTwoBoxes(before)) =>
        \A k \in AtomIndices(slab) : \A d \in 1..3 :
            0 <= slab.positions[k][d] /\ slab.positions[k][d] < slab.cell[d][d]

\* C3 amended: for an input with 0 <= x < 2 L on every axis, every output
\* coordinate satisfies -0.05 <= x < L: an atom within 0.05 below the upper
\* face is moved to just below the lower face.
C3_BackInsideBoxWithinTolerance ==
    (OrthoCalled /\ InsideTwoBoxes(before)) =>
        \A k \in AtomIndices(slab) : \A d \in 1..3 :
            -5 <= slab.positions[k][d] /\ slab.positions[k][d] < slab.cell[d][d]

C3_Witness ==
    /\ OrthoCalled /\ ncalls = 1 /\ InsideTwoBoxes(before)
    /\ \E k \in AtomIndices(before) :
        /\ before.positions[k][1] = 2 * Lx - 6 /\ slab.positions[k][1] = Lx - 6
        /\ before.positions[k][2] = 2 * Ly - 5 /\ slab.positions[k][2] = Ly - 5

OnlyEntry10Changed ==
    /\ slab.cell[2][1] = 0
    /\ \A i \in 1..3 : \A j \in 1..3 :
        <<i, j>> # <<2, 1>> => slab.cell[i][j] = before.cell[i][j]
    /\ slab.symbols = before.symbols
    /\ slab.pbc = before.pbc
    /\ Len(slab.positions) = Len(before.positions)

Orthogonal(cell) == \A e \in OffDiagonal : cell[e[1]][e[2]] = 0

\* C8 as stated: the call zeroes cell entry (1,0) and leaves the other eight
\* entries, the atom count, the symbols and their order alone, and for every
\* input whose (1,0) entry was non-zero the resulting cell is orthogonal.
C8_LatticeFrame_AsStated ==
    OrthoCalled =>
        /\ OnlyEntry10Changed
        /\ before.cell[2][1] # 0 => Orthogonal(slab.cell)

\* C8 amended: the call zeroes cell entry (1,0) and leaves the other eight
\* entries, the atom count, the symbols and their order alone, and for every
\* input whose only non-zero off-diagonal entry was (1,0) the resulting cell is
\* orthogonal.
C8_LatticeFrame ==
    OrthoCalled =>
        /\ OnlyEntry10Changed
        /\ (/\ before.cell[2][1] # 0
            /\ \A e \in OffDiagonal \ {<<2, 1>>} : before.cell[e[1]][e[2]] = 0)
               => Orthogonal(slab.cell)

C8_Witness ==
    /\ OrthoCalled /\ ncalls = 1
    /\ before.cell[2][1] = 190
    /\ \A e \in OffDiagonal \ {<<2, 1>>} : before.cell[e[1]][e[2]] = 0
    /\ Orthogonal(slab.cell)
    /\ Len(slab.symbols) = 2

\* the fixed table of ceria_crystallographic, in quarters of the cell edge
FluoriteTable ==
    <<<<0, 0, 0>>, <<2, 2, 0>>, <<2, 0, 2>>, <<0, 2, 2>>,
      <<1, 1, 1>>, <<1, 1, 3>>, <<1, 3, 1>>, <<3, 1, 1>>,
      <<1, 3, 3>>, <<3, 1, 3>>, <<3, 3, 1>>, <<3, 3, 3>>>>

BuiltConventional ==
    \/ fn = "ceria_crystallographic" /\ pc = "done"
    \/ fn = "slab" /\ pc # "select" /\ log[1] = "ceria_crystallographic"

BuiltPrimitive ==
    \/ fn = "ceria_primitive" /\ pc = "done"
    \/ fn = "slab" /\ pc # "select" /\ log[1] = "ceria_primitive"

\* C6: ceria_crystallographic returns 12 atoms in fixed order, atoms 0-3 Ce at
\* (0,0,0), (1/2,1/2,0), (1/2,0,1/2), (0,1/2,1/2), atoms 4-11 O at the eight
\* distinct points of {1/4,3/4}^3, in a cubic cell of edge cellparam with zero
\* off-diagonal entries, periodic on all three axes.
C6_ConventionalCell ==
    BuiltConventional =>
        /\ Len(ceria.symbols) = 12 /\ Len(ceria.positions) = 12
        /\ \A k \in 1..4 : ceria.symbols[k] = "Ce"
        /\ \A k \in 5..12 : ceria.symbols[k] = "O"
        /\ \A k \in 1..12 : \A d \in 1..3 :
            4 * ceria.positions[k][d] = FluoriteTable[k][d] * cellparam
        /\ get_scaled_positions(ceria) = FluoriteTable
        /\ {get_scaled_positions(ceria)[k] : k \in 5..12}
               = {<<x, y, z>> : x \in {1, 3}, y \in {1, 3}, z \in {1, 3}}
        /\ \A d \in 1..3 : ceria.cell[d][d] = cellparam
        /\ Orthogonal(ceria.cell)
        /\ ceria.pbc = <<TRUE, TRUE, TRUE>>

C6_Witness ==
    /\ fn = "ceria_crystallographic" /\ pc = "done" /\ cellparam = 544
    /\ Len(ceria.symbols) = 12
    /\ ceria.positions[12] = <<408, 408, 408>>

\* C7 as stated: ceria_primitive returns 2 atoms (1 Ce, 1 O), atom 0 at scaled
\* position (1/2,1/2,1/2), every other atom where the bulk constructor put it.
C7_PrimitiveCell_AsStated ==
    BuiltPrimitive =>
        /\ Len(ceria.symbols) = 2
        /\ Count(ceria.symbols, "Ce") = 1 /\ Count(ceria.symbols, "O") = 1
        /\ get_scaled_positions(ceria)[1] = <<2, 2, 2>>
        /\ \A k \in 2..Len(ceria.positions) :
            ceria.positions[k] = bulk(CeO2, cellparam).positions[k]

\* C7 amended: ceria_primitive returns 3 atoms (1 Ce, 2 O, one per atom of the
\* formula unit CeO2), atom 0 at scaled position (1/2,1/2,1/2) in the cell
\* defined by cellparam, every other atom where the bulk constructor put it.
C7_PrimitiveCell ==
    BuiltPrimitive =>
        /\ Len(ceria.symbols) = 3 /\ Len(ceria.positions) = 3
        /\ Count(ceria.symbols, "Ce") = 1 /\ Count(ceria.symbols, "O") = 2
        /\ ceria.symbols[1] = "Ce"
        /\ get_scaled_positions(ceria)[1] = <<2, 2, 2>>
        /\ \A d \in 1..3 : 2 * ceria.positions[1][d] = cellparam
        /\ ceria.cell = bulk(CeO2, cellparam).cell
        /\ \A k \in 2..3 :
            /\ ceria.positions[k] = bulk(CeO2, cellparam).positions[k]
            /\ get_scaled_positions(ceria)[k]
                   = get_scaled_positions(bulk(CeO2, cellparam))[k]

C7_Witness ==
    /\ fn = "ceria_primitive" /\ pc = "done" /\ cellparam = 544
    /\ ceria.positions = <<<<272, 272, 272>>, <<136, 136, 136>>, <<408, 408, 408>>>>

BuilderCalls == Count(log, "ceria_primitive") + Count(log, "ceria_crystallographic")

\* C4 as stated: slab calls exactly one builder, ceria_primitive when indices
\* equals (1,1,1) and ceria_crystallographic otherwise, and hands the cutter
\* that builder's output: 2 atoms on the primitive path, 12 on the other.
C4_BuilderSelection_AsStated ==
    (fn = "slab" /\ pc # "select") =>
        /\ BuilderCalls = 1
        /\ IF indices = Tuple(1, 1, 1)
           THEN /\ log[1] = "ceria_primitive"
                /\ ceria = ceria_primitive(cellparam)
                /\ Len(ceria.symbols) = 2
           ELSE /\ log[1] = "ceria_crystallographic"
                /\ ceria = ceria_crystallographic(cellparam)
                /\ Len(ceria.symbols) = 12

\* C4 amended: slab calls exactly one builder, ceria_primitive when indices
\* equals (1,1,1) and ceria_crystallographic otherwise, and hands the cutter
\* that builder's output: 3 atoms on the primitive path, 12 on the other.
C4_BuilderSelection ==
    (fn = "slab" /\ pc # "select") =>
        /\ BuilderCalls = 1
        /\ IF indices = Tuple(1, 1, 1)
           THEN /\ log[1] = "ceria_primitive"
                /\ ceria = ceria_primitive(cellparam)
                /\ Len(ceria.symbols) = 3
           ELSE /\ log[1] = "ceria_crystallographic"
                /\ ceria = ceria_crystallographic(cellparam)
                /\ Len(ceria.symbols) = 12
        /\ pc = "repeat" => Len(slab.symbols) = Len(ceria.symbols) * layers

C4_Witness ==
    /\ fn = "slab" /\ pc = "repeat"
    /\ indices = List(1, 1, 1) /\ layers = 2
    /\ log = <<"ceria_crystallographic", "surface">>
    /\ Len(slab.symbols) = 24

Repetitions == repetitions[1] * repetitions[2] * repetitions[3]

\* C5: a slab call that returns with waterspecies 'a' returns the tiled slab
\* plus exactly three atoms, one O and two H, whatever the repetitions (its atom
\* count is bulk atoms x layers x repetitions + 3); with any other waterspecies
\* it returns the atoms of the tiled slab and no H, and the call fails only
\* where the cutter rejects the indices.
C5_WaterAtoms ==
    /\ (fn = "slab" /\ pc = "done") =>
        LET base == Len(ceria.symbols) * layers * Repetitions
        IN  /\ Len(tiled.symbols) = base
            /\ Len(slab.positions) = Len(slab.symbols)
            /\ IF waterspecies = "a"
               THEN /\ Len(slab.symbols) = base + 3
                    /\ Count(slab.symbols, "O") = Count(tiled.symbols, "O") + 1
                    /\ Count(slab.symbols, "H") = 2
                    /\ Count(slab.symbols, "Ce") = Count(tiled.symbols, "Ce")
               ELSE /\ Len(slab.symbols) = base
                    /\ Count(slab.symbols, "O") = Count(tiled.symbols, "O")
                    /\ Count(slab.symbols, "H") = 0
                    /\ Count(slab.symbols, "Ce") = Count(tiled.symbols, "Ce")
                    /\ water = NoAtoms
    /\ (fn = "slab" /\ pc = "raised") => InvalidIndices(indices)

C5_Witness ==
    /\ fn = "slab" /\ pc = "done" /\ waterspecies = "a"
    /\ repetitions = <<2, 2, 1>> /\ layers = 2 /\ indices = Tuple(1, 1, 1)
    /\ Len(slab.symbols) = 27
    /\ Count(slab.symbols, "H") = 2

IsPrefix(p, q) == Len(p) <= Len(q) /\ \A k \in 1..Len(p) : p[k] = q[k]

\* the calls that build or change a structure: all but the read of the symbols
\* on line 130
NamedCalls == SelectSeq(log, LAMBDA c : c # "get_chemical_symbols")

ExpectedCalls ==
    <<IF indices = Tuple(1, 1, 1) THEN "ceria_primitive" ELSE "ceria_crystallographic",
      "surface", "repeat">>
    \o (IF waterspecies = "a"
        THEN <<"molecule", "rotate(80,z)", "rotate(-60,x)", "rotate(50,y)",
               "add_adsorbate">>
        ELSE <<>>)
    \o <<"sort">>

\* C9: in every slab call the calls happen in the order builder, surface,
\* repeat, (only for waterspecies 'a') molecule, the three rotations and
\* add_adsorbate, sort, each at most once; a call that returns has made all of
\* them, sort is the last call before the return on both paths, and
\* orthogonalize_111 is never called.
C9_CallOrder ==
    fn = "slab" =>
        /\ IsPrefix(NamedCalls, ExpectedCalls)
        /\ pc \in {"return", "done"} =>
            /\ NamedCalls = ExpectedCalls
            /\ log[Len(log)] = "sort"
        /\ Count(log, "orthogonalize_111") = 0
        /\ ncalls = 0

C9_Witness ==
    /\ fn = "slab" /\ pc = "done"
    /\ indices = Tuple(1, 1, 1) /\ waterspecies = "a"
    /\ log = <<"ceria_primitive", "surface", "repeat", "molecule", "rotate(80,z)",
               "rotate(-60,x)", "rotate(50,y)", "add_adsorbate",
               "get_chemical_symbols", "sort">>

RotatedWater ==
    rotate(rotate(rotate(molecule("H2O"), 80, "z"), -60, "x"), 50, "y")

\* C10: with waterspecies 'a' the first atom of the molecule is placed at
\* (x + 0.6, y - 0.3), 2 above the highest slab atom, where (x, y) belong to the
\* third-from-last atom of the slab as tiled; the molecule has the shape given
\* by rotating 80 about z, then -60 about x, then 50 about y; the rotations and
\* the placement move no slab atom, and the molecule is appended before the
\* sort.
C10_AdsorbatePlacement ==
    /\ (fn = "slab" /\ pc \in {"rotate_z", "rotate_x", "rotate_y", "add_adsorbate"})
           => slab = tiled
    /\ (fn = "slab" /\ pc = "add_adsorbate") => water = RotatedWater
    /\ (fn = "slab" /\ waterspecies = "a" /\ pc \in {"symbols", "sort", "return", "done"}) =>
        LET n == Len(tiled.positions)
            anchor == tiled.positions[n - 2]
        IN  /\ water.positions[1] =
                   <<anchor[1] + 60, anchor[2] - 30, MaxOf(ZCoords(tiled.positions)) + 200>>
            /\ \A k \in 1..3 :
                VecSub(water.positions[k], water.positions[1])
                    = VecSub(RotatedWater.positions[k], RotatedWater.positions[1])
            /\ pc \in {"symbols", "sort"} =>
                /\ slab.positions = tiled.positions \o water.positions
                /\ slab.symbols = tiled.symbols \o <<"O", "H", "H">>
                /\ slab.cell = tiled.cell

C10_Witness ==
    /\ fn = "slab" /\ pc = "symbols" /\ waterspecies = "a"
    /\ repetitions = <<2, 1, 2>> /\ layers = 1 /\ indices = Tuple(1, 1, 1)
    /\ cellparam = 400
    /\ Len(slab.symbols) = Len(tiled.symbols) + 3
    /\ tiled.positions[Len(tiled.positions) - 2] # tiled.positions[Len(tiled.positions)]
    /\ water.positions[1][1] = tiled.positions[Len(tiled.positions) - 2][1] + 60

====
